---- MODULE Spec2Model ----
(***************************************************************************)
(* Model of the profile card of clash-nyanpasu                             *)
(* (src/frontend/nyanpasu/src/components/profiles/profile-item.tsx):       *)
(*   - SpecCard:     the card's guarded actions (handleSelect,            *)
(*                   handleUpdate, handleDelete), its menu and its         *)
(*                   loading flags;                                        *)
(*   - SpecCarousel: the TextCarousel component and its interval timer;    *)
(*   - SpecTraffic:  the traffic calculation (calc) and the progress       *)
(*                   display rendered from it.                             *)
(* One task of the UI event loop (a gesture, a promise settlement with the *)
(* microtasks it schedules, a timer callback with the re-render and the    *)
(* effects that follow) is one action.                                     *)
(***************************************************************************)
EXTENDS Integers, Sequences, FiniteSets, TLC

\* ---------------------------------------------------------------- bounds
\* Number of gestures that reach one of the three guarded handlers.
MaxTriggers == 3

\* ------------------------------------------------------- card: the state
VARIABLES
    itemType,     \* item.type: "remote" or "local"
    option,       \* item.option: <<>> when absent, <<[with_proxy, self_proxy]>> otherwise
    selected,     \* the `selected` prop
    anchorEl,     \* menu anchor: "null" or "button"
    clickLog,     \* what the latest handleClick did, in order (<<>> before the first)
    lockRef,      \* lockRef.current of the three useLockFn wrappers
    loading,      \* useSetState({update, card})
    calls,        \* number of invocations of each backend operation
    settled,      \* number of settlements of each backend operation, by outcome
    trig,         \* number of triggers of each handler
    lastUpdate,   \* <<>> or <<[proxy, options]>>: the latest handleUpdate(proxy) that reached
                  \* updateProfile, with the options it passed
    lastErr,      \* <<>> or <<err>>: the value of the latest rejection
    notes,        \* the message(...) calls made: their number and the latest one
    escaped       \* rejections that left a handler (the wrapper's promise rejected)

cardVars == <<itemType, option, selected, anchorEl, clickLog, lockRef, loading,
              calls, settled, trig, lastUpdate, lastErr, notes, escaped>>

\* ---------------------------------------------------- carousel: the state
VARIABLES
    mounted,      \* a TextCarousel instance is mounted
    index,        \* useState(0): a JavaScript number
    propsNodes,   \* props.nodes: "none" stands for a falsy entry
    timers,       \* the environment's active intervals: id -> seconds to the next call
    timer,        \* the `timer` of the current effect: <<>> or <<id>>
    nextId,       \* the id the next setInterval returns
    sinceChange,  \* seconds since index last changed (or was created), up to Period
    lastChange    \* what last changed index ("mount", "timer", "click") and the seconds
                  \* the interval it cancelled had left

carouselVars == <<mounted, index, propsNodes, timers, timer, nextId,
                  sinceChange, lastChange>>

\* ----------------------------------------------------- traffic: the state
VARIABLES
    extra,        \* item.extra: <<>> when absent, <<[download, upload, total]>> otherwise
    rendered      \* <<>> before the first render, then <<what the card shows>>

trafficVars == <<extra, rendered>>

vars == <<cardVars, carouselVars, trafficVars>>

Keys == {"select", "update", "delete"}
Ops  == {"setProfilesConfig", "deleteConnections", "updateProfile", "deleteProfile"}

Options == [with_proxy : BOOLEAN, self_proxy : BOOLEAN]

\* Values a backend call may reject with: Error instances and a thrown string.
Errors ==
    { [kind |-> "Error",  name |-> "FetchError", text |-> "m0"],
      [kind |-> "Error",  name |-> "TypeError",  text |-> "m1"],
      [kind |-> "string", name |-> "",           text |-> "m2"] }

\* Backend calls of operation op that have been made and have not settled.
InFlight(op) == calls[op] - settled[op].ok - settled[op].rejected

Triggers == trig["select"] + trig["update"] + trig["delete"]

\* ---------------------------------------------------- card: pure helpers
\* useLockFn: `if (lockRef.current) return`
LockedNever(k) == FALSE
LockedAny(k) == \E j \in Keys : lockRef[j]
Locked(k) == lockRef[k]

\* handleSelect: `if (selected) return`
AlreadySelectedNever == FALSE
AlreadySelected == selected

\* handleUpdate: the options object handed to updateProfile
ResolveOptionsSwapped(opt, proxy) ==
    LET stored == IF opt = <<>> THEN [with_proxy |-> FALSE, self_proxy |-> FALSE]
                  ELSE opt[1]
    IN  IF proxy
        THEN IF opt # <<>> /\ opt[1].self_proxy
             THEN [with_proxy |-> TRUE,  self_proxy |-> FALSE]
             ELSE [with_proxy |-> FALSE, self_proxy |-> TRUE]
        ELSE stored
ResolveOptions(opt, proxy) ==
    LET stored == IF opt = <<>> THEN [with_proxy |-> FALSE, self_proxy |-> FALSE]
                  ELSE opt[1]
    IN  IF proxy
        THEN IF opt # <<>> /\ opt[1].self_proxy
             THEN [stored EXCEPT !.with_proxy = FALSE, !.self_proxy = TRUE]
             ELSE [stored EXCEPT !.with_proxy = TRUE,  !.self_proxy = FALSE]
        ELSE stored

\* handleUpdate: `options` is item.option itself when that is present, so the
\* assignments of the proxy branch write into the record.
OptionAfterUpdate(opt, proxy) ==
    IF opt = <<>> THEN opt ELSE <<ResolveOptions(opt, proxy)>>

\* String(err) / err.message
ErrText(err) == err.text

\* JSON.stringify(err): an Error has no enumerable own properties
JSONStringify(err) ==
    IF err.kind = "Error" THEN "{}"
    ELSE CASE err.text = "m0" -> "\"m0\""
           [] err.text = "m1" -> "\"m1\""
           [] OTHER           -> "\"m2\""

\* handleSelect, catch: the message shown
SelectErrorMessageByName(err) ==
    LET is_fetch_error == err.name = "TypeError"
    IN  [text  |-> IF is_fetch_error
                   THEN [fmt |-> "FetchError", arg |-> "Subscription"]
                   ELSE [fmt |-> "Error setting profile: \n ", arg |-> ErrText(err)],
         title |-> "Error",
         type  |-> "error"]
SelectErrorMessage(err) ==
    LET is_fetch_error == err.kind = "Error" /\ err.name = "FetchError"
    IN  [text  |-> IF is_fetch_error
                   THEN [fmt |-> "FetchError", arg |-> "Subscription"]
                   ELSE [fmt |-> "Error setting profile: \n ", arg |-> ErrText(err)],
         title |-> "Error",
         type  |-> "error"]

\* handleDelete, catch: the message shown
DeleteErrorMessage(err) ==
    [text  |-> [fmt |-> "Delete failed: \n ", arg |-> JSONStringify(err)],
     title |-> "Error",
     type  |-> "error"]

\* message(text, { title, type })
message(ns, m) == [n |-> ns.n + 1, last |-> <<m>>]

\* handleSelect, finally: setLoading({ card: false })
FinallySelectSkipped(l) == l
FinallySelect(l) == [l EXCEPT !.card = FALSE]

\* handleUpdate, finally: setLoading({ update: false })
FinallyUpdateSkipped(l) == l
FinallyUpdate(l) == [l EXCEPT !.update = FALSE]

\* ------------------------------------------------- card: the handlers
\* Each handler is the synchronous part of the wrapped async function: from
\* the trigger to its first await (or to its return).

\* const handleSelect = useLockFn(async () => { ... })
handleSelectNoAwait ==
    /\ trig' = [trig EXCEPT !["select"] = @ + 1]
    /\ IF Locked("select") \/ AlreadySelected
       THEN UNCHANGED <<lockRef, loading, calls>>
       ELSE /\ lockRef' = [lockRef EXCEPT !["select"] = TRUE]
            /\ loading' = [loading EXCEPT !.card = TRUE]
            /\ calls' = [calls EXCEPT !["setProfilesConfig"] = @ + 1,
                                      !["deleteConnections"] = @ + 1]
    /\ UNCHANGED <<option, lastUpdate, settled, lastErr, notes, escaped>>
handleSelect ==
    /\ trig' = [trig EXCEPT !["select"] = @ + 1]
    /\ IF Locked("select") \/ AlreadySelected
       THEN UNCHANGED <<lockRef, loading, calls>>
       ELSE /\ lockRef' = [lockRef EXCEPT !["select"] = TRUE]
            /\ loading' = [loading EXCEPT !.card = TRUE]
            /\ calls' = [calls EXCEPT !["setProfilesConfig"] = @ + 1]
    /\ UNCHANGED <<option, lastUpdate, settled, lastErr, notes, escaped>>

\* const handleUpdate = useLockFn(async (proxy?: boolean) => { ... })
handleUpdate(proxy) ==
    /\ trig' = [trig EXCEPT !["update"] = @ + 1]
    /\ IF Locked("update")
       THEN UNCHANGED <<lockRef, loading, calls, option, lastUpdate>>
       ELSE /\ lockRef' = [lockRef EXCEPT !["update"] = TRUE]
            /\ option' = OptionAfterUpdate(option, proxy)
            /\ loading' = [loading EXCEPT !.update = TRUE]
            /\ calls' = [calls EXCEPT !["updateProfile"] = @ + 1]
            /\ lastUpdate' = <<[proxy |-> proxy,
                              options |-> ResolveOptions(option, proxy)]>>
    /\ UNCHANGED <<settled, lastErr, notes, escaped>>

\* const handleDelete = useLockFn(async () => { ... })
handleDelete ==
    /\ trig' = [trig EXCEPT !["delete"] = @ + 1]
    /\ IF Locked("delete")
       THEN UNCHANGED <<lockRef, calls>>
       ELSE /\ lockRef' = [lockRef EXCEPT !["delete"] = TRUE]
            /\ calls' = [calls EXCEPT !["deleteProfile"] = @ + 1]
    /\ UNCHANGED <<option, loading, lastUpdate, settled, lastErr, notes, escaped>>

\* ------------------------------------------------- card: the gestures
\* <div ... onClick={handleSelect}>
ClickCard ==
    /\ Triggers < MaxTriggers
    /\ handleSelect
    /\ UNCHANGED <<clickLog, itemType, selected, anchorEl>>
    /\ UNCHANGED <<carouselVars, trafficVars>>

\* {isRemote && <LoadingButton onClick={... menuMapping.Update() }>}
ClickUpdateButton ==
    /\ Triggers < MaxTriggers
    /\ itemType = "remote"
    /\ handleUpdate(FALSE)
    /\ UNCHANGED <<clickLog, itemType, selected, anchorEl>>
    /\ UNCHANGED <<carouselVars, trafficVars>>

\* menu button: setAnchorEl(e.currentTarget)
ClickMenuButton ==
    /\ anchorEl = "null"
    /\ anchorEl' = "button"
    /\ UNCHANGED <<clickLog, itemType, option, selected, lockRef, loading, calls,
                   settled, trig, lastUpdate, lastErr, notes, escaped>>
    /\ UNCHANGED <<carouselVars, trafficVars>>

\* <Menu onClose={() => setAnchorEl(null)}>
CloseMenu ==
    /\ anchorEl # "null"
    /\ anchorEl' = "null"
    /\ UNCHANGED <<clickLog, itemType, option, selected, lockRef, loading, calls,
                   settled, trig, lastUpdate, lastErr, notes, escaped>>
    /\ UNCHANGED <<carouselVars, trafficVars>>

MenuKeys == {"Select", "Edit Info", "Proxy Chains", "Open File", "Update",
             "Update(Proxy)", "Delete"}

HandlerKeys == {"Select", "Update", "Update(Proxy)", "Delete"}

\* menuMapping[key](): the entries that are no guarded handler (setOpen(true),
\* onClickChains(item), viewProfile(item.uid)) reach the edit dialog and the
\* collaborators only.
menuMapping(key) ==
    CASE key = "Select"        -> handleSelect
      [] key = "Update"        -> handleUpdate(FALSE)
      [] key = "Update(Proxy)" -> handleUpdate(TRUE)
      [] key = "Delete"        -> handleDelete
      [] OTHER                 ->
            UNCHANGED <<option, lockRef, loading, calls, settled, trig,
                        lastUpdate, lastErr, notes, escaped>>

\* const handleClick = (func) => { setAnchorEl(null); func(); }
handleClickFuncFirst(key) ==
    /\ clickLog' = <<"func", "setAnchorEl">>
    /\ anchorEl' = "null"
    /\ menuMapping(key)
handleClick(key) ==
    /\ clickLog' = <<"setAnchorEl", "func">>
    /\ anchorEl' = "null"
    /\ menuMapping(key)

\* MenuItem onClick: cleanDeepClickEvent(e); handleClick(func)
ClickMenuItem(key) ==
    /\ anchorEl # "null"
    /\ key \in HandlerKeys => Triggers < MaxTriggers
    /\ handleClick(key)
    /\ UNCHANGED <<itemType, selected>>
    /\ UNCHANGED <<carouselVars, trafficVars>>

\* The parent re-renders the card with another `selected`.
SetSelected ==
    /\ selected' = ~selected
    /\ UNCHANGED <<clickLog, itemType, option, anchorEl, lockRef, loading, calls,
                   settled, trig, lastUpdate, lastErr, notes, escaped>>
    /\ UNCHANGED <<carouselVars, trafficVars>>

\* ------------------------------------- card: settlements of backend calls
\* await setProfilesConfig(...) resolves: the handler goes on to
\* `await deleteConnections()`.
setProfilesConfigResolve ==
    /\ InFlight("setProfilesConfig") > 0
    /\ settled' = [settled EXCEPT !["setProfilesConfig"].ok = @ + 1]
    /\ calls' = [calls EXCEPT !["deleteConnections"] = @ + 1]
    /\ UNCHANGED <<clickLog, itemType, option, selected, anchorEl, lockRef, loading,
                   trig, lastUpdate, lastErr, notes, escaped>>
    /\ UNCHANGED <<carouselVars, trafficVars>>

\* An await of handleSelect rejects with err: catch, finally, and the
\* wrapper's finally (lockRef.current = false).
SelectRejected(op, err) ==
    /\ InFlight(op) > 0
    /\ settled' = [settled EXCEPT ![op].rejected = @ + 1]
    /\ lastErr' = <<err>>
    /\ notes' = message(notes, SelectErrorMessage(err))
    /\ loading' = FinallySelect(loading)
    /\ lockRef' = [lockRef EXCEPT !["select"] = FALSE]
    /\ UNCHANGED <<clickLog, itemType, option, selected, anchorEl, calls, trig,
                   lastUpdate, escaped>>
    /\ UNCHANGED <<carouselVars, trafficVars>>

setProfilesConfigReject == \E err \in Errors : SelectRejected("setProfilesConfig", err)

deleteConnectionsReject == \E err \in Errors : SelectRejected("deleteConnections", err)

\* await deleteConnections() resolves: finally, and the wrapper's finally.
deleteConnectionsResolve ==
    /\ InFlight("deleteConnections") > 0
    /\ settled' = [settled EXCEPT !["deleteConnections"].ok = @ + 1]
    /\ loading' = FinallySelect(loading)
    /\ lockRef' = [lockRef EXCEPT !["select"] = FALSE]
    /\ UNCHANGED <<clickLog, itemType, option, selected, anchorEl, calls, trig,
                   lastUpdate, lastErr, notes, escaped>>
    /\ UNCHANGED <<carouselVars, trafficVars>>

\* await updateProfile(...) resolves: finally, and the wrapper's finally.
updateProfileResolve ==
    /\ InFlight("updateProfile") > 0
    /\ settled' = [settled EXCEPT !["updateProfile"].ok = @ + 1]
    /\ loading' = FinallyUpdate(loading)
    /\ lockRef' = [lockRef EXCEPT !["update"] = FALSE]
    /\ UNCHANGED <<clickLog, itemType, option, selected, anchorEl, calls, trig,
                   lastUpdate, lastErr, notes, escaped>>
    /\ UNCHANGED <<carouselVars, trafficVars>>

\* A wrapper that frees the key only after a resolved invocation.
updateProfileRejectKeepsLock ==
    \E err \in Errors :
        /\ InFlight("updateProfile") > 0
        /\ settled' = [settled EXCEPT !["updateProfile"].rejected = @ + 1]
        /\ lastErr' = <<err>>
        /\ loading' = FinallyUpdate(loading)
        /\ escaped' = escaped + 1
        /\ UNCHANGED <<clickLog, itemType, option, selected, anchorEl, calls, trig, lockRef,
                       lastUpdate, notes>>
        /\ UNCHANGED <<carouselVars, trafficVars>>

\* await updateProfile(...) rejects: there is no catch, so after the two
\* finally blocks the rejection leaves the handler.
updateProfileReject ==
    \E err \in Errors :
        /\ InFlight("updateProfile") > 0
        /\ settled' = [settled EXCEPT !["updateProfile"].rejected = @ + 1]
        /\ lastErr' = <<err>>
        /\ loading' = FinallyUpdate(loading)
        /\ lockRef' = [lockRef EXCEPT !["update"] = FALSE]
        /\ escaped' = escaped + 1
        /\ UNCHANGED <<clickLog, itemType, option, selected, anchorEl, calls, trig,
                       lastUpdate, notes>>
        /\ UNCHANGED <<carouselVars, trafficVars>>

\* await deleteProfile(...) resolves: the wrapper's finally.
deleteProfileResolve ==
    /\ InFlight("deleteProfile") > 0
    /\ settled' = [settled EXCEPT !["deleteProfile"].ok = @ + 1]
    /\ lockRef' = [lockRef EXCEPT !["delete"] = FALSE]
    /\ UNCHANGED <<clickLog, itemType, option, selected, anchorEl, loading, calls,
                   trig, lastUpdate, lastErr, notes, escaped>>
    /\ UNCHANGED <<carouselVars, trafficVars>>

\* await deleteProfile(...) rejects: catch, and the wrapper's finally.
deleteProfileReject ==
    \E err \in Errors :
        /\ InFlight("deleteProfile") > 0
        /\ settled' = [settled EXCEPT !["deleteProfile"].rejected = @ + 1]
        /\ lastErr' = <<err>>
        /\ notes' = message(notes, DeleteErrorMessage(err))
        /\ lockRef' = [lockRef EXCEPT !["delete"] = FALSE]
        /\ UNCHANGED <<clickLog, itemType, option, selected, anchorEl, loading,
                       calls, trig, lastUpdate, escaped>>
        /\ UNCHANGED <<carouselVars, trafficVars>>

CardNext ==
    \/ ClickCard
    \/ ClickUpdateButton
    \/ ClickMenuButton
    \/ CloseMenu
    \/ \E key \in MenuKeys : ClickMenuItem(key)
    \/ SetSelected
    \/ setProfilesConfigResolve
    \/ setProfilesConfigReject
    \/ deleteConnectionsResolve
    \/ deleteConnectionsReject
    \/ updateProfileResolve
    \/ updateProfileReject
    \/ deleteProfileResolve
    \/ deleteProfileReject


\* ------------------------------------------- carousel: index arithmetic
\* An integer-valued number: [k |-> "num", v |-> the integer], or NaN.
Num(n) == [k |-> "num", v |-> n]
NaN == [k |-> "NaN", v |-> 0]

\* ----------------------------------------------- carousel: the state
\* setInterval(..., 5000): the period, in seconds
Period == 5

\* Number of setInterval calls of one run.
MaxTimerId == 4

NodeLists == {<<u, e>> : u \in {"none", "Updated"}, e \in {"none", "Expires"}}

\* const nodes = useMemo(() => props.nodes.filter((item) => !!item), ...)
nodes == SelectSeq(propsNodes, LAMBDA item : item # "none")

\* (i + 1) % nodes.length
NextIndexNoWrap(i, n) ==
    IF i.k = "NaN" \/ n = 0 THEN NaN ELSE Num(i.v + 1)
NextIndex(i, n) ==
    IF i.k = "NaN" \/ n = 0 THEN NaN ELSE Num((i.v + 1) % n)

clearInterval(ts, id) == [i \in DOMAIN ts \ {id} |-> ts[i]]

setInterval(ts, id) ==
    [i \in DOMAIN ts \cup {id} |-> IF i = id THEN Period ELSE ts[i]]

\* the effect's cleanup: `return () => clearInterval(timer)`
EffectCleanupLeaks(ts, tm) == ts
EffectCleanup(ts, tm) == IF tm = <<>> THEN ts ELSE clearInterval(ts, tm[1])

\* nextNode() on a mounted instance, then the re-render: the effect depends
\* on [index, nextNode] and nextNode is stable, so it is cleaned up and run
\* again exactly when index changed. ts is the timer table at the call.
nextNodeKeepsTimer(ts) ==
    /\ index' = NextIndex(index, Len(nodes))
    /\ timers' = ts
    /\ UNCHANGED <<timer, nextId>>
nextNode(ts) ==
    /\ index' = NextIndex(index, Len(nodes))
    /\ IF index' # index
       THEN /\ nextId <= MaxTimerId
            /\ timers' = setInterval(EffectCleanup(ts, timer), nextId)
            /\ timer' = <<nextId>>
            /\ nextId' = nextId + 1
       ELSE /\ timers' = ts
            /\ UNCHANGED <<timer, nextId>>

\* One second passes: no interval is overdue.
Elapse ==
    /\ DOMAIN timers # {}
    /\ \A id \in DOMAIN timers : timers[id] > 0
    /\ timers' = [id \in DOMAIN timers |-> timers[id] - 1]
    /\ sinceChange' = IF sinceChange < Period THEN sinceChange + 1 ELSE Period
    /\ UNCHANGED <<mounted, index, propsNodes, timer, nextId, lastChange>>
    /\ UNCHANGED <<cardVars, trafficVars>>

\* An interval is due: its callback calls nextNode() and the interval starts
\* its next period. setIndex on an unmounted instance does nothing.
TimerFire ==
    \E id \in DOMAIN timers :
        /\ timers[id] = 0
        /\ IF mounted
           THEN nextNode([timers EXCEPT ![id] = Period])
           ELSE /\ timers' = [timers EXCEPT ![id] = Period]
                /\ UNCHANGED <<index, timer, nextId>>
        /\ sinceChange' = IF index' # index THEN 0 ELSE sinceChange
        /\ lastChange' = IF index' # index
                         THEN [by |-> "timer", left |-> timers[id]]
                         ELSE lastChange
        /\ UNCHANGED <<mounted, propsNodes>>
        /\ UNCHANGED <<cardVars, trafficVars>>

\* <div ... onClick={() => nextNode()}>
ClickDisplay ==
    /\ mounted
    /\ nextNode(timers)
    /\ sinceChange' = IF index' # index THEN 0 ELSE sinceChange
    /\ lastChange' = IF index' # index
                     THEN [by |-> "click", left |-> timers[timer[1]]]
                     ELSE lastChange
    /\ UNCHANGED <<mounted, propsNodes>>
    /\ UNCHANGED <<cardVars, trafficVars>>

\* The parent renders the carousel with another list of nodes.
SetNodes ==
    \E new \in NodeLists :
        /\ mounted
        /\ new # propsNodes
        /\ propsNodes' = new
        /\ UNCHANGED <<mounted, index, timers, timer, nextId, sinceChange, lastChange>>
        /\ UNCHANGED <<cardVars, trafficVars>>

Unmount ==
    /\ mounted
    /\ mounted' = FALSE
    /\ timers' = EffectCleanup(timers, timer)
    /\ timer' = <<>>
    /\ UNCHANGED <<index, propsNodes, nextId, sinceChange, lastChange>>
    /\ UNCHANGED <<cardVars, trafficVars>>

\* A new instance is mounted: useState(0), and the effect runs.
Mount ==
    /\ ~mounted
    /\ nextId <= MaxTimerId
    /\ mounted' = TRUE
    /\ index' = Num(0)
    /\ timers' = setInterval(timers, nextId)
    /\ timer' = <<nextId>>
    /\ nextId' = nextId + 1
    /\ sinceChange' = 0
    /\ lastChange' = [by |-> "mount", left |-> 0]
    /\ UNCHANGED propsNodes
    /\ UNCHANGED <<cardVars, trafficVars>>

CarouselNext ==
    \/ Elapse
    \/ TimerFire
    \/ ClickDisplay
    \/ SetNodes
    \/ Unmount
    \/ Mount

\* ------------------------------------------------ traffic: the state
\* Largest byte count of item.extra.
MaxBytes == 3

Extras == {<<>>} \cup
          {<<e>> : e \in [download : 0..MaxBytes, upload : 0..MaxBytes, total : 0..MaxBytes]}

RECURSIVE GCD(_, _)
GCD(a, b) == IF b = 0 THEN a ELSE GCD(b, a % b)

\* A quotient of two non-negative integers as JavaScript computes it: a
\* finite value n/d in lowest terms, NaN (0/0) or Infinity (x/0, x > 0).
Ratio(n, d) ==
    IF d = 0
    THEN [k |-> IF n = 0 THEN "NaN" ELSE "Infinity", n |-> 0, d |-> 1]
    ELSE LET g == GCD(n, d) IN [k |-> "num", n |-> n \div g, d |-> d \div g]

\* (used / total) * 100
Percent(used, total) ==
    LET q == Ratio(used, total)
    IN  IF q.k = "num" THEN Ratio(q.n * 100, q.d) ELSE q

\* x.toFixed(2): "NaN", "Infinity", or the value rounded to hundredths
toFixed2(x) ==
    IF x.k = "num"
    THEN [k |-> "num", hundredths |-> (x.n * 100 * 2 + x.d) \div (2 * x.d)]
    ELSE [k |-> x.k, hundredths |-> 0]

\* const calc = () => { ... return { progress, total, used } }
calc(x) ==
    IF x # <<>>
    THEN LET total == x[1].total
             used  == x[1].download + x[1].upload
         IN  [progress |-> Percent(used, total), total |-> total, used |-> used]
    ELSE [progress |-> Ratio(0, 1), total |-> 0, used |-> 0]

\* <LinearProgress value={progress} /> and {((used / total) * 100).toFixed(2)}%
View(x) ==
    LET c == calc(x)
    IN  [value |-> c.progress, percent |-> toFixed2(Percent(c.used, c.total)),
         used |-> c.used, total |-> c.total]

\* The first render of the card.
Render ==
    /\ rendered = <<>>
    /\ rendered' = <<View(extra)>>
    /\ UNCHANGED extra
    /\ UNCHANGED <<cardVars, carouselVars>>

\* The parent renders the card with another record.
ReceiveItem ==
    \E x \in Extras :
        /\ rendered # <<>>
        /\ x # extra
        /\ extra' = x
        /\ rendered' = <<View(x)>>
        /\ UNCHANGED <<cardVars, carouselVars>>

TrafficNext ==
    \/ Render
    \/ ReceiveItem

\* ------------------------------------------------- the specifications
\* Each specification starts from the card as constructed (useSetState,
\* useState(null), useState(false), the lock refs, useState(0) and the first
\* run of the effect) and lets one part run; the record and the props of the
\* part under study are drawn from all their values.

InitCard ==
    /\ itemType \in {"remote", "local"}
    /\ option \in {<<>>} \cup {<<o>> : o \in Options}
    /\ selected \in BOOLEAN
    /\ anchorEl = "null"
    /\ clickLog = <<>>
    /\ lockRef = [k \in Keys |-> FALSE]
    /\ loading = [update |-> FALSE, card |-> FALSE]
    /\ calls = [op \in Ops |-> 0]
    /\ settled = [op \in Ops |-> [ok |-> 0, rejected |-> 0]]
    /\ trig = [k \in Keys |-> 0]
    /\ lastUpdate = <<>>
    /\ lastErr = <<>>
    /\ notes = [n |-> 0, last |-> <<>>]
    /\ escaped = 0
    /\ propsNodes = <<"Updated", "Expires">>
    /\ mounted = TRUE
    /\ index = Num(0)
    /\ timers = setInterval(<<>>, 1)
    /\ timer = <<1>>
    /\ nextId = 2
    /\ sinceChange = 0
    /\ lastChange = [by |-> "mount", left |-> 0]
    /\ extra = <<>>
    /\ rendered = <<>>

\* A remote profile without stored options, not the selected one.
InitCardLive ==
    /\ itemType = "remote"
    /\ option = <<>>
    /\ selected = FALSE
    /\ anchorEl = "null"
    /\ clickLog = <<>>
    /\ lockRef = [k \in Keys |-> FALSE]
    /\ loading = [update |-> FALSE, card |-> FALSE]
    /\ calls = [op \in Ops |-> 0]
    /\ settled = [op \in Ops |-> [ok |-> 0, rejected |-> 0]]
    /\ trig = [k \in Keys |-> 0]
    /\ lastUpdate = <<>>
    /\ lastErr = <<>>
    /\ notes = [n |-> 0, last |-> <<>>]
    /\ escaped = 0
    /\ propsNodes = <<"Updated", "Expires">>
    /\ mounted = TRUE
    /\ index = Num(0)
    /\ timers = setInterval(<<>>, 1)
    /\ timer = <<1>>
    /\ nextId = 2
    /\ sinceChange = 0
    /\ lastChange = [by |-> "mount", left |-> 0]
    /\ extra = <<>>
    /\ rendered = <<>>

InitCarousel ==
    /\ itemType = "remote"
    /\ option = <<>>
    /\ selected = FALSE
    /\ anchorEl = "null"
    /\ clickLog = <<>>
    /\ lockRef = [k \in Keys |-> FALSE]
    /\ loading = [update |-> FALSE, card |-> FALSE]
    /\ calls = [op \in Ops |-> 0]
    /\ settled = [op \in Ops |-> [ok |-> 0, rejected |-> 0]]
    /\ trig = [k \in Keys |-> 0]
    /\ lastUpdate = <<>>
    /\ lastErr = <<>>
    /\ notes = [n |-> 0, last |-> <<>>]
    /\ escaped = 0
    /\ propsNodes \in NodeLists
    /\ mounted = TRUE
    /\ index = Num(0)
    /\ timers = setInterval(<<>>, 1)
    /\ timer = <<1>>
    /\ nextId = 2
    /\ sinceChange = 0
    /\ lastChange = [by |-> "mount", left |-> 0]
    /\ extra = <<>>
    /\ rendered = <<>>

InitTraffic ==
    /\ itemType = "remote"
    /\ option = <<>>
    /\ selected = FALSE
    /\ anchorEl = "null"
    /\ clickLog = <<>>
    /\ lockRef = [k \in Keys |-> FALSE]
    /\ loading = [update |-> FALSE, card |-> FALSE]
    /\ calls = [op \in Ops |-> 0]
    /\ settled = [op \in Ops |-> [ok |-> 0, rejected |-> 0]]
    /\ trig = [k \in Keys |-> 0]
    /\ lastUpdate = <<>>
    /\ lastErr = <<>>
    /\ notes = [n |-> 0, last |-> <<>>]
    /\ escaped = 0
    /\ propsNodes = <<"Updated", "Expires">>
    /\ mounted = TRUE
    /\ index = Num(0)
    /\ timers = setInterval(<<>>, 1)
    /\ timer = <<1>>
    /\ nextId = 2
    /\ sinceChange = 0
    /\ lastChange = [by |-> "mount", left |-> 0]
    /\ extra \in Extras
    /\ rendered = <<>>

SpecCard == InitCard /\ [][CardNext]_vars

\* Every backend call that is in flight is eventually settled, and the task of
\* its settlement runs the handler's continuation.
CallsSettle ==
    /\ WF_vars(setProfilesConfigResolve \/ setProfilesConfigReject)
    /\ WF_vars(deleteConnectionsResolve \/ deleteConnectionsReject)
    /\ WF_vars(updateProfileResolve \/ updateProfileReject)
    /\ WF_vars(deleteProfileResolve \/ deleteProfileReject)

SpecCardLive == InitCardLive /\ [][CardNext]_vars /\ CallsSettle

SpecCarousel == InitCarousel /\ [][CarouselNext]_vars

SpecTraffic == InitTraffic /\ [][TrafficNext]_vars

\* ============================================================ the claims
\* Invocations of the handler of key k that are suspended at a backend call.
KeyInFlight(k) ==
    CASE k = "select" -> InFlight("setProfilesConfig") + InFlight("deleteConnections")
      [] k = "update" -> InFlight("updateProfile")
      [] OTHER        -> InFlight("deleteProfile")

\* C1: for each action key, at most one invocation (and so at most one
\* backend call) is in flight on the card, and a trigger that arrives while
\* an invocation of its key is in flight starts no backend call.
C1_OneInFlightPerKey ==
    /\ [](\A k \in Keys : KeyInFlight(k) <= 1)
    /\ [][\A k \in Keys :
            (trig'[k] # trig[k] /\ KeyInFlight(k) > 0) => calls' = calls]_vars

\* Two update triggers were issued before the first call settled, and one
\* updateProfile call was made.
C1_Witness ==
    /\ trig["update"] = 2
    /\ calls["updateProfile"] = 1
    /\ InFlight("updateProfile") = 1

\* C2: loading.card is true only while a select invocation is in flight and
\* loading.update only while an update invocation is in flight; the
\* settlement that ends the invocation, resolved or rejected, leaves the flag
\* false.
C2_LoadingOnlyInFlight ==
    /\ [](loading.card => KeyInFlight("select") > 0)
    /\ [](loading.update => KeyInFlight("update") > 0)
    /\ [][(KeyInFlight("select") > 0 /\ KeyInFlight("select")' = 0)
            => ~loading'.card]_vars
    /\ [][(KeyInFlight("update") > 0 /\ KeyInFlight("update")' = 0)
            => ~loading'.update]_vars

\* A select ended by a rejection and an update ended by a rejection, and
\* both flags are false again.
C2_Witness ==
    /\ settled["setProfilesConfig"].rejected = 1
    /\ settled["updateProfile"].rejected = 1
    /\ KeyInFlight("select") = 0 /\ KeyInFlight("update") = 0
    /\ ~loading.card /\ ~loading.update

\* C3: deleteConnections is called only after setProfilesConfig resolved:
\* its calls never outnumber the resolved setProfilesConfig calls, none is
\* in flight together with a setProfilesConfig call, and a rejection of
\* setProfilesConfig starts no deleteConnections call.
C3_SetThenClear ==
    /\ [](calls["deleteConnections"] <= settled["setProfilesConfig"].ok)
    /\ [](InFlight("deleteConnections") > 0 => InFlight("setProfilesConfig") = 0)
    /\ [][settled'["setProfilesConfig"].rejected # settled["setProfilesConfig"].rejected
            => calls'["deleteConnections"] = calls["deleteConnections"]]_vars

\* One select went through both calls and another was rejected at the first.
C3_Witness ==
    /\ calls["setProfilesConfig"] = 2
    /\ settled["setProfilesConfig"].rejected = 1
    /\ calls["deleteConnections"] = 1

\* C4: a select trigger on a card that is the selected profile makes no
\* backend call and leaves the loading flags as they are.
C4_SelectedIsNoOp ==
    [][(trig'["select"] # trig["select"] /\ selected)
         => (calls' = calls /\ loading' = loading)]_vars

\* Select was triggered on a selected card, twice, with no call made.
C4_Witness ==
    /\ selected
    /\ trig["select"] = 2
    /\ calls = [op \in Ops |-> 0]
    /\ ~loading.card

Zero == [k |-> "num", n |-> 0, d |-> 1]

\* C5 (as claimed): once the card is rendered, absent usage or total = 0
\* gives a progress value of 0 and a displayed percentage of 0.00, never NaN
\* or Infinity.
C5_ZeroWithoutTotal ==
    (rendered # <<>> /\ (extra = <<>> \/ extra[1].total = 0))
        => /\ rendered[1].value = Zero
           /\ rendered[1].percent = [k |-> "num", hundredths |-> 0]

\* The options "update via proxy" is to pass for the stored options opt.
C6_ViaProxy(opt) ==
    IF opt # <<>> /\ opt[1].self_proxy
    THEN [with_proxy |-> FALSE, self_proxy |-> TRUE]
    ELSE [with_proxy |-> TRUE, self_proxy |-> FALSE]

\* The options a plain update is to pass for the stored options opt.
C6_Plain(opt) ==
    IF opt = <<>> THEN [with_proxy |-> FALSE, self_proxy |-> FALSE] ELSE opt[1]

\* C6: each updateProfile call gets, via proxy, {with_proxy:false,
\* self_proxy:true} when the stored self_proxy is true and {with_proxy:true,
\* self_proxy:false} otherwise (exactly one of the two is true), and on a
\* plain update the stored options or, without any, both false.
C6_ResolvedOptions ==
    [][calls'["updateProfile"] # calls["updateProfile"] =>
         LET e == lastUpdate'[1]
         IN  /\ lastUpdate' # <<>>
             /\ e.proxy => /\ e.options = C6_ViaProxy(option)
                           /\ e.options.with_proxy # e.options.self_proxy
             /\ ~e.proxy => e.options = C6_Plain(option)]_vars

\* After a plain update, an update via proxy of a record that stored
\* self_proxy passed {with_proxy:false, self_proxy:true}.
C6_Witness ==
    /\ calls["updateProfile"] = 2
    /\ lastUpdate # <<>>
    /\ lastUpdate[1].proxy
    /\ lastUpdate[1].options = [with_proxy |-> FALSE, self_proxy |-> TRUE]

\* A rejection of one of the two calls of handleSelect / a resolution.
SelectFailedStep ==
    \/ settled'["setProfilesConfig"].rejected # settled["setProfilesConfig"].rejected
    \/ settled'["deleteConnections"].rejected # settled["deleteConnections"].rejected

SelectResolvedStep ==
    \/ settled'["setProfilesConfig"].ok # settled["setProfilesConfig"].ok
    \/ settled'["deleteConnections"].ok # settled["deleteConnections"].ok

\* C7: a failing select notifies exactly once, with type "error": the canned
\* FetchError message for an Error named FetchError, otherwise a message
\* carrying the raw error text; a resolved call of select notifies nothing.
C7_SelectFailureNotified ==
    /\ [][SelectFailedStep =>
            LET err == lastErr'[1]
                m   == notes'.last[1]
            IN  /\ notes'.n = notes.n + 1
                /\ m.type = "error"
                /\ IF err.kind = "Error" /\ err.name = "FetchError"
                   THEN m.text = [fmt |-> "FetchError", arg |-> "Subscription"]
                   ELSE m.text.fmt # "FetchError" /\ m.text.arg = err.text]_vars
    /\ [][SelectResolvedStep => notes' = notes]_vars

\* One select failed at setProfilesConfig, a later one with a thrown string
\* at deleteConnections, and each was notified once.
C7_Witness ==
    /\ settled["setProfilesConfig"].rejected = 1
    /\ settled["deleteConnections"].rejected = 1
    /\ notes.n = 2
    /\ notes.last[1].text = [fmt |-> "Error setting profile: \n ", arg |-> "m2"]

\* C8: a rejection of updateProfile makes no message(...) call and leaves
\* loading.update false.
C8_UpdateFailureSilent ==
    [][settled'["updateProfile"].rejected # settled["updateProfile"].rejected
         => (notes' = notes /\ ~loading'.update)]_vars

\* An update was rejected; nothing was notified.
C8_Witness ==
    /\ settled["updateProfile"].rejected = 1
    /\ notes.n = 0
    /\ ~loading.update

\* C9 (as claimed): with a non-empty list of n nodes, a timer call or a
\* click sets index to (index + 1) mod n, a value in 0..n-1.
C9_AdvanceWraps ==
    [][((TimerFire \/ ClickDisplay) /\ mounted /\ Len(nodes) > 0)
         => (index'.k = "num" /\ index'.v = (index.v + 1) % Len(nodes))]_vars

\* C10: while mounted exactly one interval is active, the one of the current
\* effect; a change of index cancels it and arms a new one with a full
\* period; after unmount no interval is active and index does not change.
C10_OneTimer ==
    /\ [](mounted => (timer # <<>> /\ DOMAIN timers = {timer[1]}))
    /\ [](~mounted => DOMAIN timers = {})
    /\ [][(mounted /\ mounted' /\ index' # index)
            => /\ timer' # timer
               /\ timer[1] \notin DOMAIN timers'
               /\ timers'[timer'[1]] = Period]_vars
    /\ [][(~mounted /\ ~mounted') => index' = index]_vars

\* The display was re-armed by an index change and then unmounted.
C10_Witness ==
    /\ ~mounted
    /\ nextId > 2
    /\ index = Num(1)
    /\ DOMAIN timers = {}

\* C11 (as claimed): while the filtered list is empty no interval is armed.
C11_NoTimerWhenEmpty ==
    (mounted /\ Len(nodes) = 0) => DOMAIN timers = {}

\* C12: every click on a menu entry calls setAnchorEl(null) before the bound
\* function and leaves the menu closed, whichever entry it is and whether or
\* not the handler's trigger is dropped by its lock; a later settlement of a
\* backend call does not touch the anchor.
C12_MenuClosesFirst ==
    /\ [](clickLog # <<>> => clickLog = <<"setAnchorEl", "func">>)
    /\ [][(\E key \in MenuKeys : ClickMenuItem(key)) => anchorEl' = "null"]_vars
    /\ [][settled' # settled => anchorEl' = anchorEl]_vars

\* On a local profile (no update button) a second Update entry was clicked
\* while the first update was in flight: its trigger was dropped and the
\* menu is closed.
C12_Witness ==
    /\ itemType = "local"
    /\ trig["update"] = 2
    /\ calls["updateProfile"] = 1
    /\ InFlight("updateProfile") = 1
    /\ clickLog = <<"setAnchorEl", "func">>
    /\ anchorEl = "null"

\* C13 (as claimed): no action of the card changes the options stored in
\* the record.
C13_RecordReadOnly ==
    [][option' = option]_vars

\* C14 (as claimed): no rejection of a backend call leaves a handler.
C14_NothingEscapes ==
    escaped = 0

\* C15 (as claimed): updateProfile is never called for a local profile.
C15_UpdateRemoteOnly ==
    itemType = "local" => calls["updateProfile"] = 0

\* C16 (as claimed): with a non-empty filtered list of n nodes, index is a
\* number with 0 <= index < n.
C16_IndexInBounds ==
    (mounted /\ Len(nodes) > 0)
        => (index.k = "num" /\ 0 <= index.v /\ index.v < Len(nodes))

\* C17: a click that changes index cancels the running interval and arms one
\* with a full period, so the interval's callback runs only when a full
\* period has passed since index last changed, never at the deadline of the
\* interval armed before the click.
C17_ClickRestartsCountdown ==
    /\ [][(ClickDisplay /\ index' # index)
            => (DOMAIN timers' = {timer'[1]} /\ timers'[timer'[1]] = Period)]_vars
    /\ [][(TimerFire /\ mounted) => sinceChange = Period]_vars

\* A click changed index when the running interval had 2 seconds left, and
\* the display is now due for its next automatic advance, 5 seconds later.
C17_Witness ==
    /\ mounted
    /\ lastChange = [by |-> "click", left |-> 2]
    /\ sinceChange = Period
    /\ timers[timer[1]] = 0

\* C18: when every backend call settles, every invocation in flight ends
\* with its lock released, also by a rejection; the lock is held only while
\* an invocation is in flight, and a trigger issued when none is (for select:
\* on a card that is not the selected one) reaches the backend.
C18_LockReleased ==
    /\ \A k \in Keys : (KeyInFlight(k) > 0) ~> (KeyInFlight(k) = 0 /\ ~lockRef[k])
    /\ [](\A k \in Keys : KeyInFlight(k) = 0 => ~lockRef[k])
    /\ [][\A k \in Keys :
            (trig'[k] # trig[k] /\ KeyInFlight(k) = 0 /\ (k = "select" => ~selected))
                => KeyInFlight(k)' = 1]_vars

\* An update was rejected and a later update trigger reached updateProfile.
C18_Witness ==
    /\ settled["updateProfile"].rejected = 1
    /\ calls["updateProfile"] = 2
    /\ InFlight("updateProfile") = 1

\* C19: the select, update and delete tracks are independent. A trigger of
\* one key issued while another key is in flight (and its own is not; for
\* select, on a card that is not the selected one) reaches the backend; the
\* settlement of a select call leaves loading.update as it was, that of an
\* update call leaves loading.card as it was, that of a delete call leaves
\* both as they were.
C19_TracksIndependent ==
    /\ [][\A k \in Keys :
            ( /\ trig'[k] # trig[k]
              /\ KeyInFlight(k) = 0
              /\ \E j \in Keys \ {k} : KeyInFlight(j) > 0
              /\ (k = "select" => ~selected) )
                => KeyInFlight(k)' = 1]_vars
    /\ [][(\/ settled'["setProfilesConfig"] # settled["setProfilesConfig"]
           \/ settled'["deleteConnections"] # settled["deleteConnections"])
                => loading'.update = loading.update]_vars
    /\ [][settled'["updateProfile"] # settled["updateProfile"]
                => loading'.card = loading.card]_vars
    /\ [][settled'["deleteProfile"] # settled["deleteProfile"]
                => loading' = loading]_vars

\* All three were in flight at once; the update has completed and the select
\* and the delete are still in flight, with the card still applying.
C19_Witness ==
    /\ settled["updateProfile"].ok = 1
    /\ KeyInFlight("update") = 0
    /\ KeyInFlight("select") = 1
    /\ KeyInFlight("delete") = 1
    /\ loading = [update |-> FALSE, card |-> TRUE]

====
